---- MODULE Spec2Model ----
(***************************************************************************)
(* Appointment scheduling of the e-hospitality application: creation by    *)
(* the doctor direct-entry view and by the patient booking view, the       *)
(* doctor's complete and cancel views, the patient's cancel view and the   *)
(* payment views, over the Appointment and Payment tables.                 *)
(***************************************************************************)
EXTENDS Integers, Sequences, FiniteSets, TLC

VARIABLES appts, payments, now, last, reqs

vars == <<appts, payments, now, last, reqs>>

\* ------------------------------------------------------------------ bounds
MaxAppts == 2
MaxTime == 2
MaxPayments == 1

\* ------------------------------------------------------------ identities
Doctors == {"d1", "d2"}
Patients == {"p1", "p2"}
Instants == 0..MaxTime

\* Appointment.STATUS_CHOICES
STATUS_CHOICES == {"scheduled", "completed", "cancelled", "no_show"}

\* Appointment ids are the auto-incremented primary keys 1, 2, ...
ApptIds == 1..MaxAppts

\* ------------------------------------------------------ request inputs
\* A POST field is either absent/empty (Missing), present but unusable
\* (Unknown id, Malformed date), or a usable value.
Missing == "missing"
Unknown == "unknown"
Malformed == "malformed"

NoteInputs == {<<>>, <<"n">>}
ReasonInputs == {Missing, "r"}

\* --------------------------------------------------------------- helpers
IsPrefix(s, t) == Len(s) <= Len(t) /\ SubSeq(t, 1, Len(s)) = s

Ids(tbl) == DOMAIN tbl

\* A storage layer without the constraint.
NoConstraint(tbl, d, t) == TRUE

\* unique_together = ('doctor', 'appointment_date'): the storage layer
\* accepts a new row only if no row, of any status, has its doctor and date.
UniqueTogether(tbl, d, t) ==
    \A i \in Ids(tbl) : ~(tbl[i].doctor = d /\ tbl[i].date = t)

\* A save that deletes the row instead of updating it.
Removed(tbl, id, row) == SubSeq(tbl, 1, id - 1) \o SubSeq(tbl, id + 1, Len(tbl))

\* appointment.save() on a row read from the table: an UPDATE of the row
\* with that primary key; no view deletes a row.
Saved(tbl, id, row) == [tbl EXCEPT ![id] = row]

\* A constraint that looks only at scheduled rows.
ScopedToScheduled(tbl, row) ==
    \A i \in Ids(tbl) :
        ~(tbl[i].doctor = row.doctor /\ tbl[i].date = row.date
          /\ tbl[i].status = "scheduled")

\* Appointment.objects.create(...): one INSERT; an IntegrityError leaves the
\* table as it was.
CanInsert(tbl, row) == UniqueTogether(tbl, row.doctor, row.date)

\* A conflict check with a tolerance window of one instant.
ConflictWithin(tbl, d, t) ==
    \E i \in Ids(tbl) :
        /\ tbl[i].doctor = d /\ tbl[i].status = "scheduled"
        /\ tbl[i].date - t \in -1..1

\* Appointment.objects.filter(doctor=doctor, appointment_date=..., status='scheduled').exists()
ConflictExists(tbl, d, t) ==
    \E i \in Ids(tbl) :
        tbl[i].doctor = d /\ tbl[i].date = t /\ tbl[i].status = "scheduled"

\* The note assigned in place of the old notes.
ReplaceNote(notes, label, text) == <<label>> \o text

\* notes + f"\n\n<label>: <text>" if notes else f"<label>: <text>"
AppendNote(notes, label, text) ==
    IF notes # <<>> THEN notes \o <<"\n\n", label>> \o text
                    ELSE <<label>> \o text

NewRow(p, d, t, r, n) ==
    [patient |-> p, doctor |-> d, date |-> t, reason |-> r,
     status |-> "scheduled", notes |-> n]

\* What the last request was and how it ended, with the tables as they were
\* when it was received (the observation the properties are stated on).
NoLast ==
    [op |-> "none", res |-> "none", id |-> 0, doctor |-> "", date |-> -1,
     note |-> FALSE, sent |-> <<>>, at |-> 0, pre |-> <<>>, prepay |-> <<>>]

Outcome(op, res, id, d, t, n) ==
    [op |-> op, res |-> res, id |-> id, doctor |-> d, date |-> t, note |-> n,
     sent |-> <<>>,
     at |-> IF op \in {"create", "book"} THEN now ELSE 0,
     pre |-> appts, prepay |-> payments]

\* --------------------------------------------------------------- inputs
\* A submitted date/time: absent, not parsable by the expected format, or
\* parsed to an instant.
DateInputs ==
    {[k |-> Missing, v |-> 0], [k |-> Malformed, v |-> 0]}
        \cup {[k |-> "ok", v |-> t] : t \in Instants}

Methods == {"GET", "POST"}

\* POST fields of doctors:create_appointment
CreateInputs ==
    [patient : Patients \cup {Missing, Unknown}, when : DateInputs,
     reason : ReasonInputs, notes : NoteInputs]

\* POST fields of patients:book_appointment
BookInputs ==
    [doctor : Doctors \cup {Missing, Unknown}, when : DateInputs,
     reason : ReasonInputs]

WhenOf(f) == IF f.when.k = "ok" THEN f.when.v ELSE -1

\* ------------------------------------------- doctors.views.create_appointment
\* Everything the view does before Appointment.objects.create: "ok" means
\* the view goes on to the insert.
CreateCheck(tbl, clock, doc, f) ==
    IF f.patient = Missing \/ f.when.k = Missing \/ f.reason = Missing
        THEN "invalid"
    ELSE IF f.patient \notin Patients THEN "not_found"
    ELSE IF f.when.k = Malformed THEN "bad_format"
    ELSE IF f.when.v <= clock THEN "past"
    ELSE IF ConflictExists(tbl, doc, f.when.v) THEN "conflict"
    ELSE "ok"

\* An except clause that reports success.
InsertSwallowed(tbl, row) == "ok"

\* The insert and the except clauses around it: an IntegrityError is caught
\* by "except Exception" and reported as a generic error.
InsertResult(tbl, row) == IF CanInsert(tbl, row) THEN "ok" ELSE "error"

\* The row written before the checks are evaluated.
InsertedUnchecked(tbl, row, chk) ==
    IF CanInsert(tbl, row) THEN Append(tbl, row) ELSE tbl

\* The table a create view leaves: the row is written only after every check
\* has passed, and only if the storage layer accepts it.
Inserted(tbl, row, chk) ==
    IF chk = "ok" /\ CanInsert(tbl, row) THEN Append(tbl, row) ELSE tbl

\* A create that takes the doctor from a submitted field.
CreateRowAsSubmitted(doc, f) ==
    NewRow(f.patient, f.doctor, f.when.v, f.reason, f.notes)

\* A create that stores no notes.
CreateRowBlank(doc, f) == NewRow(f.patient, doc, f.when.v, f.reason, <<>>)

CreateRow(doc, f) == NewRow(f.patient, doc, f.when.v, f.reason, f.notes)

DoctorCreate(doc, m, f) ==
    /\ Len(appts) < MaxAppts
    /\ LET chk == CreateCheck(appts, now, doc, f)
           res == IF m = "GET" THEN "form"
                  ELSE IF chk # "ok" THEN chk
                  ELSE InsertResult(appts, CreateRow(doc, f))
       IN  /\ appts' = IF m = "GET" THEN appts
                                   ELSE Inserted(appts, CreateRow(doc, f), chk)
           /\ last' = [Outcome("create", res,
                               IF res = "ok" THEN Len(appts) + 1 ELSE 0,
                               doc, IF m = "POST" THEN WhenOf(f) ELSE -1, FALSE)
                           EXCEPT !.sent = IF res = "ok" THEN f.notes ELSE <<>>]
    /\ UNCHANGED <<payments, now, reqs>>

\* --------------------------------------------- patients.views.book_appointment
\* The view checks only that the three fields are present; an unknown doctor
\* or an unparsable date raises inside the try block.  There is no future
\* check and no conflict check on this path.
BookCheck(f) ==
    IF f.doctor = Missing \/ f.when.k = Missing \/ f.reason = Missing
        THEN "invalid"
    ELSE IF f.doctor \notin Doctors THEN "error"
    ELSE IF f.when.k = Malformed THEN "error"
    ELSE "ok"

BookRow(p, f) == NewRow(p, f.doctor, f.when.v, f.reason, <<>>)

\* The table book_appointment leaves.
Booked(tbl, p, m, f) ==
    IF m = "GET" THEN tbl ELSE Inserted(tbl, BookRow(p, f), BookCheck(f))

PatientBook(p, m, f) ==
    /\ Len(appts) < MaxAppts
    /\ LET chk == BookCheck(f)
           res == IF m = "GET" THEN "form"
                  ELSE IF chk # "ok" THEN chk
                  ELSE InsertResult(appts, BookRow(p, f))
       IN  /\ appts' = Booked(appts, p, m, f)
           /\ last' = Outcome("book", res,
                              IF res = "ok" THEN Len(appts) + 1 ELSE 0,
                              IF m = "POST" /\ f.doctor \in Doctors
                                  THEN f.doctor ELSE "",
                              IF m = "POST" THEN WhenOf(f) ELSE -1, FALSE)
    /\ UNCHANGED <<payments, now, reqs>>

\* ------------------------------------------------ status-changing views
\* get_object_or_404(Appointment, id=appointment_id, doctor=doctor)
OwnedByDoctor(tbl, id, doc) == id \in Ids(tbl) /\ tbl[id].doctor = doc

\* A lookup by id alone.
OwnedByAnyone(tbl, id, p) == id \in Ids(tbl)

\* get_object_or_404(Appointment, id=appointment_id, patient__user=request.user)
OwnedByPatient(tbl, id, p) == id \in Ids(tbl) /\ tbl[id].patient = p

\* A status test that only excludes cancelled appointments.
NotCancelled(a) == a.status # "cancelled"

\* if appointment.status == 'scheduled'
CanTransition(a) == a.status = "scheduled"

\* The row complete_appointment saves: status and, with a note, notes.
Completed(a, text) ==
    [a EXCEPT !.status = "completed",
              !.notes = IF text # <<>>
                            THEN AppendNote(a.notes, "Completion Notes: ", text)
                            ELSE a.notes]

\* The row the doctor's cancel_appointment saves.
Cancelled(a, text) ==
    [a EXCEPT !.status = "cancelled",
              !.notes = IF text # <<>>
                            THEN AppendNote(a.notes, "Cancellation Reason: ", text)
                            ELSE a.notes]

\* appointment.save() of the row as it was read, the status not assigned.
SavedAsRead(a) == a

\* The row the patient's cancel_appointment saves: the status is assigned
\* whatever the current status and the request method are.
PatientCancelled(a) == [a EXCEPT !.status = "cancelled"]

\* How a doctor's complete or cancel request ends.
TransitionResult(tbl, id, doc, m) ==
    IF ~OwnedByDoctor(tbl, id, doc) THEN "not_found"
    ELSE IF m = "GET" THEN "form"
    ELSE IF CanTransition(tbl[id]) THEN "ok"
    ELSE "rejected"

\* doctors.views.complete_appointment
DoctorComplete(doc, id, m, text) ==
    LET res == TransitionResult(appts, id, doc, m)
    IN  /\ appts' = IF res = "ok"
                        THEN Saved(appts, id, Completed(appts[id], text))
                        ELSE appts
        /\ last' = Outcome("complete", res, id, doc, -1,
                            res \in {"ok", "rejected"} /\ text # <<>>)
        /\ UNCHANGED <<payments, now, reqs>>

\* doctors.views.cancel_appointment
DoctorCancel(doc, id, m, text) ==
    LET res == TransitionResult(appts, id, doc, m)
    IN  /\ appts' = IF res = "ok"
                        THEN Saved(appts, id, Cancelled(appts[id], text))
                        ELSE appts
        /\ last' = Outcome("cancel", res, id, doc, -1,
                            res \in {"ok", "rejected"} /\ text # <<>>)
        /\ UNCHANGED <<payments, now, reqs>>

\* patients.views.cancel_appointment: the Http404 of an unknown or foreign id
\* is swallowed by the bare except and reported as an error.
PatientCancel(p, id, m) ==
    LET res == IF OwnedByPatient(appts, id, p) THEN "ok" ELSE "error"
    IN  /\ appts' = IF res = "ok"
                        THEN Saved(appts, id, PatientCancelled(appts[id]))
                        ELSE appts
        /\ last' = Outcome("pcancel", res, id, "", -1, FALSE)
        /\ UNCHANGED <<payments, now, reqs>>

\* ------------------------------------------------------------ payments
\* A Payment row keeps the linked appointment id (0 for a payment made for a
\* doctor without an appointment) and the payment status; its razorpay order
\* id is its position in the table.
PayIds == 1..MaxPayments

NewPayment(id) == [appt |-> id, status |-> "pending"]

\* payments.views.initiate_payment: the order is created at the gateway
\* first; when that call fails no Payment row is written.
InitiateResult(tbl, p, id, gateway) ==
    IF id # 0 /\ ~OwnedByPatient(tbl, id, p) THEN "not_found"
    ELSE IF ~gateway THEN "gateway_error"
    ELSE "ok"

\* The payments table initiate_payment leaves.
Initiated(pays, tbl, p, id, gateway) ==
    IF InitiateResult(tbl, p, id, gateway) = "ok"
        THEN Append(pays, NewPayment(id)) ELSE pays

InitiatePayment(p, id, gateway) ==
    /\ Len(payments) < MaxPayments
    /\ payments' = Initiated(payments, appts, p, id, gateway)
    /\ last' = Outcome("pay_init", InitiateResult(appts, p, id, gateway), id,
                       "", -1, FALSE)
    /\ UNCHANGED <<appts, now, reqs>>

\* payment.appointment.status = 'confirmed'
Confirmed(a) == [a EXCEPT !.status = "confirmed"]

\* A callback that does not look at the outcome of the verification.
Unverified(pays, m, order, verify) ==
    IF m = "GET" THEN "redirect"
    ELSE IF order \notin DOMAIN pays THEN "failed"
    ELSE "ok"

\* How the payment callback ends: a GET is redirected; a verification that
\* returns a false value or raises, and an order id without a Payment row,
\* end on the failure page.
CallbackResult(pays, m, order, verify) ==
    IF m = "GET" THEN "redirect"
    ELSE IF verify # "true" THEN "failed"
    ELSE IF order \notin DOMAIN pays THEN "failed"
    ELSE "ok"

\* payments.views.payment_success.  verify is what
\* utility.verify_payment_signature does: return a true value, return a false
\* value, or raise; capture is whether payment.capture succeeds (its failure
\* is only reported).
PaymentSuccess(m, order, verify, capture) ==
    LET res == CallbackResult(payments, m, order, verify)
        aid == IF res = "ok" THEN payments[order].appt ELSE 0
    IN  /\ payments' = IF res = "ok"
                           THEN [payments EXCEPT ![order].status = "completed"]
                           ELSE payments
        /\ appts' = IF aid # 0
                        THEN Saved(appts, aid, Confirmed(appts[aid]))
                        ELSE appts
        /\ last' = Outcome("pay_success", res, aid, "", -1, res = "ok" /\ capture)
        /\ UNCHANGED <<now, reqs>>

\* ------------------------------------------------------------------ time
Tick ==
    /\ now < MaxTime
    /\ now' = now + 1
    /\ UNCHANGED <<appts, payments, last, reqs>>

\* ------------------------------------------------------- specifications
NoReqs == <<>>

Init ==
    /\ appts = <<>>
    /\ payments = <<>>
    /\ now = 0
    /\ last = NoLast
    /\ reqs = NoReqs

VerifyOutcomes == {"true", "false", "raise"}

\* The status-changing requests and the payment requests, with every input.
StatusNext ==
    \/ \E doc \in Doctors, id \in ApptIds, m \in Methods, text \in NoteInputs :
           DoctorComplete(doc, id, m, text)
    \/ \E doc \in Doctors, id \in ApptIds, m \in Methods, text \in NoteInputs :
           DoctorCancel(doc, id, m, text)
    \/ \E p \in Patients, id \in ApptIds, m \in Methods : PatientCancel(p, id, m)

PaymentNext ==
    \/ \E p \in Patients, id \in ApptIds \cup {0}, gateway \in BOOLEAN :
           InitiatePayment(p, id, gateway)
    \/ \E m \in Methods, order \in PayIds, verify \in VerifyOutcomes,
          capture \in BOOLEAN :
           PaymentSuccess(m, order, verify, capture)

\* Spec: requests handled one at a time.  Every operation with every input;
\* create requests are received while the table is empty, so that the
\* behaviours follow one appointment from its creation on.
Next ==
    \/ /\ appts = <<>>
       /\ \E doc \in Doctors, m \in Methods, f \in CreateInputs :
              DoctorCreate(doc, m, f)
    \/ /\ appts = <<>>
       /\ \E p \in Patients, m \in Methods, f \in BookInputs : PatientBook(p, m, f)
    \/ StatusNext
    \/ PaymentNext
    \/ Tick

Spec == Init /\ [][Next]_vars

\* SlotSpec: requests handled one at a time, up to MaxAppts appointments;
\* the operations on appointments, without note texts.
NoText == {<<>>}

PlainCreateInputs == {f \in CreateInputs : f.notes = <<>>}

SlotNext ==
    \/ \E doc \in Doctors, m \in Methods, f \in PlainCreateInputs :
           DoctorCreate(doc, m, f)
    \/ \E p \in Patients, m \in Methods, f \in BookInputs : PatientBook(p, m, f)
    \/ \E doc \in Doctors, id \in ApptIds, m \in Methods, text \in NoText :
           DoctorComplete(doc, id, m, text)
    \/ \E doc \in Doctors, id \in ApptIds, m \in Methods, text \in NoText :
           DoctorCancel(doc, id, m, text)
    \/ \E p \in Patients, id \in ApptIds, m \in Methods : PatientCancel(p, id, m)
    \/ Tick

SlotSpec == Init /\ [][SlotNext]_vars

\* ----------------------------------------------------- interleaved requests
\* RaceSpec: requests handled concurrently.  No view runs in a transaction,
\* so a view that reads the table and later writes it is two steps (payment
\* success: three), and other requests may run in between.  reqs[r] is the
\* request a worker r is handling: where it is (pc), the row it holds in
\* memory, and, once done, how it ended.
Reqs == {"r1", "r2"}

NoRow == [patient |-> "", doctor |-> "", date |-> -1, reason |-> "",
          status |-> "", notes |-> <<>>]

Idle ==
    [pc |-> "idle", op |-> "none", id |-> 0, row |-> NoRow, text |-> <<>>,
     res |-> "none", raced |-> FALSE, free |-> FALSE, held |-> FALSE]

Pending(pc, op, id, row, text) ==
    [pc |-> pc, op |-> op, id |-> id, row |-> row, text |-> text,
     res |-> "none", raced |-> FALSE, free |-> FALSE, held |-> FALSE]

Done(op, res, id, row) ==
    [pc |-> "done", op |-> op, id |-> id, row |-> row, text |-> <<>>,
     res |-> res, raced |-> FALSE, free |-> FALSE, held |-> FALSE]

\* book_appointment and initiate_payment touch the tables once.
RaceBook(p, f) ==
    /\ Len(appts) < MaxAppts
    /\ appts' = Booked(appts, p, "POST", f)
    /\ UNCHANGED <<payments, now, last, reqs>>

RaceInitiate(p, id, gateway) ==
    /\ Len(payments) < MaxPayments
    /\ payments' = Initiated(payments, appts, p, id, gateway)
    /\ UNCHANGED <<appts, now, last, reqs>>

Free(r) == reqs[r].pc \in {"idle", "done"}

SameSlot(a, b) == a.doctor = b.doctor /\ a.date = b.date

RaceInit ==
    /\ appts = <<>>
    /\ payments = <<>>
    /\ now = 0
    /\ last = NoLast
    /\ reqs = [r \in Reqs |-> Idle]

\* create_appointment up to and including the conflict check (POST).
BeginCreate(r, doc, f) ==
    /\ Free(r)
    /\ Len(appts) < MaxAppts
    /\ LET chk == CreateCheck(appts, now, doc, f)
       IN  reqs' = [reqs EXCEPT ![r] =
                       IF chk = "ok"
                           THEN [Pending("insert", "create", 0, CreateRow(doc, f), <<>>)
                                    EXCEPT !.held = ~UniqueTogether(appts, doc, f.when.v)]
                           ELSE Done("create", chk, 0, CreateRow(doc, f))]
    /\ UNCHANGED <<appts, payments, now, last>>

\* create_appointment from Appointment.objects.create on.  raced records
\* that another create for the same slot had passed its check and not yet
\* inserted; held that a row held the slot when the check passed; free that
\* no row held the slot at the insert.
FinishCreate(r) ==
    /\ reqs[r].pc = "insert"
    /\ Len(appts) < MaxAppts \/ ~CanInsert(appts, reqs[r].row)
    /\ LET row == reqs[r].row
           rivals == {q \in Reqs \ {r} :
                         reqs[q].pc = "insert" /\ SameSlot(reqs[q].row, row)}
       IN  /\ appts' = Inserted(appts, row, "ok")
           /\ reqs' = [q \in Reqs |->
                          IF q = r
                              THEN [reqs[r] EXCEPT
                                       !.pc = "done",
                                       !.res = InsertResult(appts, row),
                                       !.id = IF CanInsert(appts, row)
                                                  THEN Len(appts) + 1 ELSE 0,
                                       !.raced = reqs[r].raced \/ rivals # {},
                                       !.free = UniqueTogether(appts, row.doctor,
                                                               row.date)]
                          ELSE IF q \in rivals
                              THEN [reqs[q] EXCEPT !.raced = TRUE]
                              ELSE reqs[q]]
    /\ UNCHANGED <<payments, now, last>>

\* complete_appointment / cancel_appointment (doctor): get_object_or_404.
BeginTransition(r, op, doc, id, text) ==
    /\ Free(r)
    /\ reqs' = [reqs EXCEPT ![r] =
                   IF OwnedByDoctor(appts, id, doc)
                       THEN Pending("save", op, id, appts[id], text)
                       ELSE Idle]
    /\ UNCHANGED <<appts, payments, now, last>>

\* The status test on the row read earlier, and appointment.save(), which
\* writes every field of that row.
FinishTransition(r) ==
    /\ reqs[r].pc = "save"
    /\ reqs[r].op \in {"complete", "cancel"}
    /\ LET q == reqs[r]
           saved == IF q.op = "complete" THEN Completed(q.row, q.text)
                                         ELSE Cancelled(q.row, q.text)
       IN  IF CanTransition(q.row)
               THEN /\ appts' = Saved(appts, q.id, saved)
                    /\ reqs' = [reqs EXCEPT ![r] = Idle]
               ELSE /\ appts' = appts
                    /\ reqs' = [reqs EXCEPT ![r] = Idle]
    /\ UNCHANGED <<payments, now, last>>

\* cancel_appointment (patient): get_object_or_404.
BeginPatientCancel(r, p, id) ==
    /\ Free(r)
    /\ reqs' = [reqs EXCEPT ![r] =
                   IF OwnedByPatient(appts, id, p)
                       THEN Pending("save", "pcancel", id, appts[id], <<>>)
                       ELSE Idle]
    /\ UNCHANGED <<appts, payments, now, last>>

FinishPatientCancel(r) ==
    /\ reqs[r].pc = "save"
    /\ reqs[r].op = "pcancel"
    /\ LET q == reqs[r]
       IN  /\ appts' = Saved(appts, q.id, PatientCancelled(q.row))
           /\ reqs' = [reqs EXCEPT ![r] = Idle]
    /\ UNCHANGED <<payments, now, last>>

\* payment_success up to payment.save() (POST).
BeginPaymentSuccess(r, order, verify) ==
    /\ Free(r)
    /\ LET found == verify = "true" /\ order \in DOMAIN payments
           aid == IF found THEN payments[order].appt ELSE 0
       IN  /\ payments' = IF found
                              THEN [payments EXCEPT ![order].status = "completed"]
                              ELSE payments
           /\ reqs' = [reqs EXCEPT ![r] =
                          IF ~found THEN Idle
                          ELSE IF aid = 0 THEN Idle
                          ELSE Pending("fetch", "pay_success", aid, NoRow, <<>>)]
    /\ UNCHANGED <<appts, now, last>>

\* payment.appointment: the linked row is read when first accessed.
FetchAppointment(r) ==
    /\ reqs[r].pc = "fetch"
    /\ reqs' = [reqs EXCEPT ![r] =
                   Pending("confirm", "pay_success", reqs[r].id,
                           appts[reqs[r].id], <<>>)]
    /\ UNCHANGED <<appts, payments, now, last>>

\* payment.appointment.status = 'confirmed'; payment.appointment.save()
FinishPaymentSuccess(r) ==
    /\ reqs[r].pc = "confirm"
    /\ LET q == reqs[r]
       IN  /\ appts' = Saved(appts, q.id, Confirmed(q.row))
           /\ reqs' = [reqs EXCEPT ![r] = Idle]
    /\ UNCHANGED <<payments, now, last>>

\* The racing requests are those of one patient, with every field present
\* and usable.
RacePatients == {"p1"}

ValidCreateInputs ==
    {f \in PlainCreateInputs :
        f.patient \in RacePatients /\ f.when.k = "ok" /\ f.reason # Missing}

ValidBookInputs ==
    {f \in BookInputs : f.doctor \in Doctors /\ f.when.k = "ok" /\ f.reason # Missing}

RaceNext ==
    \/ \E r \in Reqs, doc \in Doctors, f \in ValidCreateInputs : BeginCreate(r, doc, f)
    \/ \E r \in Reqs : FinishCreate(r)
    \/ \E p \in RacePatients, f \in ValidBookInputs : RaceBook(p, f)
    \/ \E r \in Reqs, op \in {"complete", "cancel"}, doc \in Doctors, id \in ApptIds :
           BeginTransition(r, op, doc, id, <<>>)
    \/ \E r \in Reqs : FinishTransition(r)
    \/ \E r \in Reqs, p \in RacePatients, id \in ApptIds : BeginPatientCancel(r, p, id)
    \/ \E r \in Reqs : FinishPatientCancel(r)
    \/ \E p \in RacePatients, id \in ApptIds : RaceInitiate(p, id, TRUE)
    \/ \E r \in Reqs, order \in PayIds, verify \in VerifyOutcomes :
           BeginPaymentSuccess(r, order, verify)
    \/ \E r \in Reqs : FetchAppointment(r)
    \/ \E r \in Reqs : FinishPaymentSuccess(r)

RaceSpec == RaceInit /\ [][RaceNext]_vars

\* ------------------------------------------------------------ properties
\* The appointment the last request named, as it was before the request.
Before == last.pre[last.id]

\* The same appointment now.
After == appts[last.id]

\* The last request named an appointment of the requesting doctor and was a POST.
DoctorPosted(op) ==
    /\ last.op = op
    /\ last.id \in DOMAIN last.pre
    /\ Before.doctor = last.doctor
    /\ last.res # "form"

Creates == {"create", "book"}

\* The last request was a create request whose fields were all present and
\* usable, for a known doctor and a parsed timestamp.
CreatePosted ==
    /\ last.op \in Creates
    /\ last.res \notin {"form", "invalid", "not_found", "bad_format"}
    /\ last.doctor \in Doctors
    /\ last.date \in Instants

\* C2: when two create requests for the same doctor and future timestamp
\* follow one another (by either path), the first, on a free slot, succeeds
\* and leaves a scheduled appointment, and the second ends with the conflict
\* error.
C2_SecondCreateConflicts ==
    [][ /\ (/\ CreatePosted'
            /\ last' # last
            /\ last'.date > last'.at
            /\ UniqueTogether(appts, last'.doctor, last'.date))
           => (/\ last'.res = "ok"
               /\ appts'[last'.id].status = "scheduled")
        /\ (/\ CreatePosted /\ last.res = "ok"
            /\ CreatePosted' /\ last' # last
            /\ last'.doctor = last.doctor /\ last'.date = last.date
            /\ last'.date > last'.at)
           => last'.res = "conflict" ]_vars

\* C1: no two appointments with status scheduled have the same doctor and
\* the same timestamp, whatever requests ran and however they interleaved.
C1_OneScheduledPerSlot ==
    \A i, j \in DOMAIN appts :
        (/\ SameSlot(appts[i], appts[j])
         /\ appts[i].status = "scheduled"
         /\ appts[j].status = "scheduled")
            => i = j

\* A create that had passed the conflict check was turned away by the storage
\* layer while a scheduled appointment holds its slot.
C1_Witness ==
    \E r \in Reqs :
        /\ reqs[r].pc = "done" /\ reqs[r].op = "create" /\ reqs[r].res = "error"
        /\ \E i \in DOMAIN appts :
               SameSlot(appts[i], reqs[r].row) /\ appts[i].status = "scheduled"

\* Two creates for one slot that both passed the conflict check before either
\* inserted, both finished.
Racers(r, q) ==
    /\ r # q
    /\ reqs[r].pc = "done" /\ reqs[q].pc = "done"
    /\ reqs[r].op = "create" /\ reqs[q].op = "create"
    /\ reqs[r].res \in {"ok", "error"} /\ reqs[q].res \in {"ok", "error"}
    /\ reqs[r].raced /\ reqs[q].raced
    /\ SameSlot(reqs[r].row, reqs[q].row)

Persisted(r) ==
    /\ reqs[r].res = "ok"
    /\ reqs[r].id \in DOMAIN appts
    /\ SameSlot(appts[reqs[r].id], reqs[r].row)

RowsAt(row) == {i \in DOMAIN appts : SameSlot(appts[i], row)}

\* C3 as stated: of two such creates exactly one persists a row and the other
\* persists nothing and ends with an error (no third request having written
\* the slot while they raced).
C3_ExactlyOneRacerPersists ==
    \A r, q \in Reqs :
        (/\ Racers(r, q)
         /\ reqs[r].free \/ reqs[q].free \/ (reqs[r].held /\ reqs[q].held))
            => \/ Persisted(r) /\ reqs[q].res = "error"
               \/ Persisted(q) /\ reqs[r].res = "error"

\* C3 amended: at most one of them persists a row, exactly one when no row
\* of any status held the slot at the first insert and none when a row
\* already held it; one that persists nothing ends with an error, and the
\* slot holds a single row.
C3_AtMostOneRacerPersists ==
    \A r, q \in Reqs :
        Racers(r, q) =>
            /\ ~(reqs[r].res = "ok" /\ reqs[q].res = "ok")
            /\ reqs[r].res = "ok" => Persisted(r)
            /\ (reqs[r].free \/ reqs[q].free)
                  <=> (reqs[r].res = "ok" \/ reqs[q].res = "ok")
            /\ (reqs[r].held \/ reqs[q].held)
                  => (reqs[r].res = "error" /\ reqs[q].res = "error")
            /\ Cardinality(RowsAt(reqs[r].row)) = 1

\* Both racers found the slot free at their checks and one of them lost.
C3_Witness ==
    \E r, q \in Reqs :
        /\ Racers(r, q)
        /\ ~reqs[r].held /\ ~reqs[q].held
        /\ Persisted(r)
        /\ reqs[q].res = "error"

\* C4: a complete request by its doctor on a scheduled appointment sets the
\* status to completed; a complete request on the appointment once completed
\* is rejected and leaves its status and notes as they were.
C4_CompleteOnce ==
    DoctorPosted("complete") =>
        /\ Before.status = "scheduled"
              => (last.res = "ok" /\ After.status = "completed")
        /\ Before.status = "completed"
              => (/\ last.res = "rejected"
                  /\ After.status = "completed"
                  /\ After.notes = Before.notes)

C4_Witness ==
    /\ DoctorPosted("complete")
    /\ Before.status = "completed"
    /\ last.note
    /\ last.res = "rejected"

\* C5: a cancel request, the doctor's or the patient's, on a completed
\* appointment fails and leaves the status completed.
C5_CancelCompletedFails ==
    /\ (DoctorPosted("cancel") /\ Before.status = "completed")
          => (last.res = "rejected" /\ After.status = "completed")
    /\ (/\ last.op = "pcancel"
        /\ last.id \in DOMAIN last.pre
        /\ last.res # "error"
        /\ Before.status = "completed")
          => After.status = "completed"

\* C6: no request changes a status that is completed, cancelled or no_show.
Terminal == {"completed", "cancelled", "no_show"}

C6_TerminalIsFinal ==
    \A i \in DOMAIN last.pre :
        last.pre[i].status \in Terminal => appts[i].status = last.pre[i].status

\* C7: every stored status is one of the four STATUS_CHOICES.
C7_StatusInChoices ==
    \A i \in DOMAIN appts : appts[i].status \in STATUS_CHOICES

\* C8: a successful complete or cancel with a note leaves the old notes as a
\* prefix of the new notes, one without a note leaves the notes as they
\* were, and no request shortens or replaces the notes of any appointment.
C8_NotesAppendOnly ==
    /\ \A i \in DOMAIN last.pre : IsPrefix(last.pre[i].notes, appts[i].notes)
    /\ (/\ last.op \in {"complete", "cancel", "pcancel"}
        /\ last.res = "ok"
        /\ ~last.note)
          => After.notes = Before.notes

C8_Witness ==
    /\ last.op \in {"complete", "cancel"}
    /\ last.res = "ok"
    /\ last.note
    /\ Before.notes # <<>>
    /\ After.notes # Before.notes

\* C9: a create request, by either path, whose timestamp is not later than
\* the instant of the request is rejected and writes no row.
C9_PastCreateRejected ==
    (/\ last.op \in Creates
     /\ last.res # "form"
     /\ last.date \in Instants
     /\ last.date <= last.at)
        => (last.res # "ok" /\ appts = last.pre)

\* C10: a create request that ends in failure leaves the set of appointments
\* and every field of every appointment as they were.
Failures == {"invalid", "not_found", "bad_format", "past", "conflict", "error"}

C10_FailedCreateWritesNothing ==
    (last.op \in Creates /\ last.res \in Failures) => appts = last.pre

C10_Witness ==
    /\ last.op = "create"
    /\ last.res = "error"
    /\ Len(appts) > 0
    /\ appts = last.pre

\* C11 as stated: every successful create, by either path, inserts exactly
\* one new appointment, with status scheduled and empty notes.
C11_CreateStoresEmptyNotes ==
    (last.op \in Creates /\ last.res = "ok")
        => /\ last.id = Len(last.pre) + 1
           /\ appts = Append(last.pre, After)
           /\ After.status = "scheduled"
           /\ After.notes = <<>>

\* C11 amended: every successful create inserts exactly one new appointment,
\* with status scheduled and the doctor and timestamp of the request; its
\* notes are the notes submitted with a direct-entry create (empty when none
\* were submitted) and empty for a patient booking.
C11_CreateStoresSubmittedNotes ==
    (last.op \in Creates /\ last.res = "ok")
        => /\ last.id = Len(last.pre) + 1
           /\ appts = Append(last.pre, After)
           /\ After.status = "scheduled"
           /\ After.doctor = last.doctor /\ After.date = last.date
           /\ After.notes = last.sent
           /\ last.op = "book" => After.notes = <<>>

\* A direct-entry create with notes succeeded.
C11_Witness ==
    /\ last.op = "create"
    /\ last.res = "ok"
    /\ last.sent # <<>>
    /\ After.notes = last.sent

\* The rows that held the slot of the last create request when it was received.
HeldBefore ==
    {i \in DOMAIN last.pre :
        last.pre[i].doctor = last.doctor /\ last.pre[i].date = last.date}

\* C12: no two appointments share a doctor and a timestamp, whatever their
\* statuses, and a create for a slot that an appointment of any status
\* already holds persists no row.
C12_SlotHeldWhateverStatus ==
    /\ \A i, j \in DOMAIN appts : SameSlot(appts[i], appts[j]) => i = j
    /\ (last.op \in Creates /\ last.res # "form" /\ HeldBefore # {})
          => (last.res # "ok" /\ appts = last.pre)

\* A create for a slot held by a cancelled or completed appointment was
\* turned away.
C12_Witness ==
    /\ last.op \in Creates
    /\ \E i \in HeldBefore : last.pre[i].status \in {"cancelled", "completed"}
    /\ last.res = "error"
    /\ appts = last.pre

\* C13: the conflict answer is given only for a scheduled appointment of the
\* same doctor at exactly the requested timestamp; a valid create for a
\* timestamp that no appointment of the doctor has, however close to another
\* one, succeeds, and the appointments already there stay as they were.
C13_ExactTimestampOnly ==
    /\ (CreatePosted /\ last.res = "conflict")
          => \E i \in HeldBefore : last.pre[i].status = "scheduled"
    /\ (/\ CreatePosted
        /\ HeldBefore = {}
        /\ last.op = "create" => last.date > last.at)
          => /\ last.res = "ok"
             /\ After.status = "scheduled"
             /\ \A i \in DOMAIN last.pre : appts[i] = last.pre[i]

\* A create succeeded next to a scheduled appointment of the same doctor one
\* instant away, and both are scheduled.
C13_Witness ==
    /\ last.op \in Creates
    /\ last.res = "ok"
    /\ \E i \in DOMAIN last.pre :
           /\ last.pre[i].doctor = last.doctor
           /\ last.pre[i].date - last.date \in {-1, 1}
           /\ appts[i].status = "scheduled"
    /\ After.status = "scheduled"

\* ------------------------------------------------------------- calendar
\* The read-only views look at calendar dates and hours.  For them an
\* instant is a number of half hours of local time (TIME_ZONE) counted from
\* 00:00 of a Monday, day 0.
\* TIME_ZONE = 'Asia/Kolkata': local time is UTC + 5:30, eleven half hours.
TzOffset == 11

At(day, hour, half) == (day * 24 + hour) * 2 + half

\* appointment_date__date: the date in the current time zone (USE_TZ).
LocalDate(t) == t \div 48

\* appointment_date__hour: the hour in the current time zone.
HourOf(t) == (t % 48) \div 2

\* date.weekday(): 0 for Monday ... 6 for Sunday.
Weekday(d) == d % 7

\* The local date as today's date.
LocalToday(clock) == LocalDate(clock)

\* timezone.now().date(): timezone.now() is an aware datetime in UTC when
\* USE_TZ is on, and .date() is the date of that datetime, the UTC date.
Today(clock) == (clock - TzOffset) \div 48

\* Tables the views are asked about: up to MaxAppts appointments at the
\* given instants, no two with the same doctor and instant (bookings are
\* accepted for any instant, so each is a table the program can hold).
TablesAt(instants) ==
    LET rows == {NewRow("p1", d, t, "r", <<>>) : d \in Doctors, t \in instants}
    IN  UNION {{tbl \in [1..n -> rows] :
                   \A i, j \in 1..n : SameSlot(tbl[i], tbl[j]) => i = j}
               : n \in 0..MaxAppts}

\* The observation of a read-only view: what it was asked and what it
\* rendered.
Rendered(op, doc, view) ==
    [op |-> op, res |-> "ok", id |-> 0, doctor |-> doc, date |-> -1,
     note |-> FALSE, sent |-> <<>>, at |-> now, pre |-> appts,
     prepay |-> payments, view |-> view]

\* ---------------------------------------------- doctors.views.doctor_schedule
\* The date query parameter: absent, not parsable as %Y-%m-%d, or a date.
ScheduleDays == {6, 7, 10, 13, 14}

DateParams ==
    {[k |-> Missing, v |-> 0], [k |-> Malformed, v |-> 0]}
        \cup {[k |-> "ok", v |-> d] : d \in ScheduleDays}

\* Appointments around the week of days 7..13: before and after the grid's
\* hours, on its first and last hour, two in one hour, and on either side of
\* the week's ends.
ScheduleInstants ==
    {At(6, 12, 0), At(7, 8, 1), At(7, 9, 0), At(7, 9, 1), At(9, 17, 1),
     At(9, 18, 0), At(13, 23, 1), At(14, 0, 0)}

\* Instants of the request: shortly after local midnight on a Monday,
\* later that Monday, and on the Sunday of that week.
ScheduleClocks == {At(7, 2, 0), At(7, 10, 0), At(13, 20, 0)}

BaseDate(param, clock) == IF param.k = "ok" THEN param.v ELSE Today(clock)

\* start_date = base_date - timedelta(days=base_date.weekday())
WeekStart(base) == base - Weekday(base)

\* end_date = start_date + timedelta(days=6)
WeekEnd(start) == start + 6

\* The week's appointments of every doctor.
InWeekAnyDoctor(tbl, doc, start) ==
    {i \in Ids(tbl) : LocalDate(tbl[i].date) \in start..WeekEnd(start)}

\* filter(doctor=doctor, appointment_date__date__range=[start_date, end_date])
InWeek(tbl, doc, start) ==
    {i \in Ids(tbl) :
        /\ tbl[i].doctor = doc
        /\ LocalDate(tbl[i].date) \in start..WeekEnd(start)}

\* for hour in range(9, 18)
GridHours == 9..17

\* schedule_grid[i][hour]
ScheduleGrid(tbl, doc, start) ==
    [i \in 0..6 |->
        [h \in GridHours |->
            {j \in InWeek(tbl, doc, start) :
                /\ LocalDate(tbl[j].date) = start + i
                /\ HourOf(tbl[j].date) = h}]]

\* A week link that keeps the requested week's Monday.
SameWeek(start) == start

\* prev_week = start_date - timedelta(days=7)
PrevWeek(start) == start - 7

\* next_week = start_date + timedelta(days=7)
NextWeek(start) == start + 7

\* The template context of doctor_schedule.
ScheduleView(tbl, doc, param, clock) ==
    LET start == WeekStart(BaseDate(param, clock))
    IN  [param |-> param, start |-> start, end |-> WeekEnd(start),
         prev_week |-> PrevWeek(start), next_week |-> NextWeek(start),
         grid |-> ScheduleGrid(tbl, doc, start)]

DoctorSchedule(doc, param) ==
    /\ last' = Rendered("schedule", doc, ScheduleView(appts, doc, param, now))
    /\ UNCHANGED <<appts, payments, now, reqs>>

ScheduleInit ==
    /\ appts \in TablesAt(ScheduleInstants)
    /\ payments = <<>>
    /\ now \in ScheduleClocks
    /\ last = NoLast
    /\ reqs = NoReqs

ScheduleNext == \E doc \in Doctors, param \in DateParams : DoctorSchedule(doc, param)

\* ScheduleSpec: the weekly schedule asked for any table, clock and parameter.
ScheduleSpec == ScheduleInit /\ [][ScheduleNext]_vars

\* The cells of the rendered grid that hold appointment j.
CellsOf(j) ==
    {c \in (DOMAIN last.view.grid) \X GridHours : j \in last.view.grid[c[1]][c[2]]}

\* C14: every appointment of the doctor dated within the rendered week is
\* in exactly one cell of the grid, the cell of its day and hour.
C14_GridPartitionsWeek ==
    last.op = "schedule" =>
        \A j \in DOMAIN appts :
            (/\ appts[j].doctor = last.doctor
             /\ LocalDate(appts[j].date) \in last.view.start..last.view.end)
                => CellsOf(j) = {<<LocalDate(appts[j].date) - last.view.start,
                                  HourOf(appts[j].date)>>}

\* The reference date the week is computed from, reading "today" as the
\* local date.
Reference == IF last.view.param.k = "ok" THEN last.view.param.v ELSE LocalToday(last.at)

\* C15: start_date is the Monday of the week that contains the reference
\* date, end_date is six days later, and without a usable date parameter the
\* reference date is today's date.
C15_WeekOfReferenceDate ==
    last.op = "schedule" =>
        /\ Weekday(last.view.start) = 0
        /\ last.view.start <= Reference /\ Reference <= last.view.start + 6
        /\ last.view.end = last.view.start + 6

\* --------------------------------------------- doctors.views.doctor_dashboard
\* timedelta(days=7), timedelta(days=30)
WeekDays == 7
MonthDays == 30

\* [:10] and [:5]
UpcomingLimit == 10
RecentLimit == 5

\* The largest table the dashboard is asked about.
MaxRows == 12

\* filter(doctor=doctor, appointment_date__date=today)
OnDate(tbl, doc, d) ==
    {i \in Ids(tbl) : tbl[i].doctor = doc /\ LocalDate(tbl[i].date) = d}

\* A window that opens the day after its first date.
AfterFirstDay(tbl, doc, lo, hi) ==
    {i \in Ids(tbl) : tbl[i].doctor = doc /\ LocalDate(tbl[i].date) \in (lo + 1)..hi}

\* filter(doctor=doctor, appointment_date__date__range=[lo, hi])
InDateRange(tbl, doc, lo, hi) ==
    {i \in Ids(tbl) : tbl[i].doctor = doc /\ LocalDate(tbl[i].date) \in lo..hi}

\* order_by('appointment_date') over the rows S, which are rows of one
\* doctor and so have distinct dates.
RECURSIVE Ascending(_, _)
Ascending(tbl, S) ==
    IF S = {} THEN <<>>
    ELSE LET first == CHOOSE i \in S : \A j \in S : tbl[i].date <= tbl[j].date
         IN  <<first>> \o Ascending(tbl, S \ {first})

\* order_by('-appointment_date')
RECURSIVE Descending(_, _)
Descending(tbl, S) ==
    IF S = {} THEN <<>>
    ELSE LET first == CHOOSE i \in S : \A j \in S : tbl[i].date >= tbl[j].date
         IN  <<first>> \o Descending(tbl, S \ {first})

\* queryset[:n]
Slice(q, n) == SubSeq(q, 1, IF Len(q) < n THEN Len(q) ELSE n)

\* An upcoming list that leaves out the status filter.
UpcomingAnyStatus(tbl, doc, clock) ==
    Slice(Ascending(tbl, {i \in Ids(tbl) :
                             tbl[i].doctor = doc /\ tbl[i].date >= clock}),
          UpcomingLimit)

\* filter(doctor=doctor, appointment_date__gte=timezone.now(),
\*        status='scheduled').order_by('appointment_date')[:10]
Upcoming(tbl, doc, clock) ==
    Slice(Ascending(tbl, {i \in Ids(tbl) :
                             /\ tbl[i].doctor = doc
                             /\ tbl[i].date >= clock
                             /\ tbl[i].status = "scheduled"}),
          UpcomingLimit)

\* filter(doctor=doctor).order_by('-appointment_date')[:5]
Recent(tbl, doc) ==
    Slice(Descending(tbl, {i \in Ids(tbl) : tbl[i].doctor = doc}), RecentLimit)

\* The counts and the lists of the dashboard's context.
DashboardView(tbl, doc, clock) ==
    LET today == Today(clock)
    IN  [today |-> today,
         today_count |-> Cardinality(OnDate(tbl, doc, today)),
         week_count |->
             Cardinality(InDateRange(tbl, doc, today, today + WeekDays)),
         month_count |->
             Cardinality(InDateRange(tbl, doc, today, today + MonthDays)),
         upcoming |-> Upcoming(tbl, doc, clock),
         recent |-> Recent(tbl, doc)]

DoctorDashboard(doc) ==
    /\ last' = Rendered("dashboard", doc, DashboardView(appts, doc, now))
    /\ UNCHANGED <<appts, payments, now, reqs>>

\* The k-th appointment of the tables the dashboard is asked about: its
\* instant (the days are not in order of k, and all differ), and the row.
LedgerInstant(k) == At(8 + ((k * 7) % 40), 9 + (k % 3), 0)

LedgerRow(k, done, theirs) ==
    [NewRow("p1", IF k \in theirs THEN "d2" ELSE "d1", LedgerInstant(k), "r", <<>>)
        EXCEPT !.status = IF k \in done THEN "cancelled" ELSE "scheduled"]

\* Tables of up to MaxRows appointments, of which up to two are cancelled
\* and up to one is another doctor's.
DashboardTables ==
    UNION {{[k \in 1..n |-> LedgerRow(k, done, theirs)] :
               done \in {D \in SUBSET (1..n) : Cardinality(D) <= 2},
               theirs \in {T \in SUBSET (1..n) : Cardinality(T) <= 1}}
           : n \in 0..MaxRows}

\* Instants of the request: before every appointment, early in the local
\* day of one (when the UTC date is the day before), at the instant of
\* one, and after half of them.
DashboardClocks == {At(8, 10, 0), At(10, 2, 0), At(15, 10, 0), At(24, 10, 0)}

DashboardInit ==
    /\ appts \in DashboardTables
    /\ payments = <<>>
    /\ now \in DashboardClocks
    /\ last = NoLast
    /\ reqs = NoReqs

DashboardNext == \E doc \in Doctors : DoctorDashboard(doc)

\* DashboardSpec: the dashboard asked for any table and clock.
DashboardSpec == DashboardInit /\ [][DashboardNext]_vars

\* C16: today's count is at most the week's count, which is at most the
\* month's count; an appointment dated today + 7 is counted in the week and
\* one dated today + 30 in the month.
C16_CountsGrowWithWindow ==
    last.op = "dashboard" =>
        LET v == last.view
            mine == {i \in DOMAIN appts : appts[i].doctor = last.doctor}
        IN  /\ v.today_count <= v.week_count
            /\ v.week_count <= v.month_count
            /\ v.week_count >=
                   Cardinality({i \in mine :
                       LocalDate(appts[i].date) \in {v.today, v.today + 7}})
            /\ v.month_count >=
                   Cardinality({i \in mine :
                       LocalDate(appts[i].date) \in {v.today, v.today + 7, v.today + 30}})

\* The doctor has an appointment today, one on the last day of the week
\* window and one on the last day of the month window, and the three counts
\* differ.
C16_Witness ==
    /\ last.op = "dashboard"
    /\ \E i, j, k \in DOMAIN appts :
           /\ appts[i].doctor = last.doctor /\ LocalDate(appts[i].date) = last.view.today
           /\ appts[j].doctor = last.doctor /\ LocalDate(appts[j].date) = last.view.today + 7
           /\ appts[k].doctor = last.doctor /\ LocalDate(appts[k].date) = last.view.today + 30
    /\ 0 < last.view.today_count
    /\ last.view.today_count < last.view.week_count
    /\ last.view.week_count < last.view.month_count

\* The appointments of the doctor who asked for the dashboard, and those of
\* them that are scheduled and not earlier than the request.
Mine == {i \in DOMAIN appts : appts[i].doctor = last.doctor}

Eligible == {i \in Mine : appts[i].status = "scheduled" /\ appts[i].date >= last.at}

Elements(q) == {q[k] : k \in DOMAIN q}

\* q lists, without repetition, the (at most n) members of S that come
\* first when S is ordered by date, ascending (dir = 1) or descending
\* (dir = -1), in that order.
FirstByDate(q, S, n, dir) ==
    /\ Len(q) = IF Cardinality(S) < n THEN Cardinality(S) ELSE n
    /\ Elements(q) \subseteq S
    /\ Cardinality(Elements(q)) = Len(q)
    /\ \A k \in 1..(Len(q) - 1) :
           dir * appts[q[k]].date <= dir * appts[q[k + 1]].date
    /\ \A i \in S \ Elements(q), j \in Elements(q) :
           dir * appts[j].date <= dir * appts[i].date

\* C17: the upcoming list is the (at most 10) earliest scheduled appointments
\* of the doctor with a timestamp >= now, ascending; the recent list is the
\* (at most 5) latest appointments of the doctor of any status, descending.
C17_UpcomingAndRecentLists ==
    last.op = "dashboard" =>
        /\ FirstByDate(last.view.upcoming, Eligible, 10, 1)
        /\ FirstByDate(last.view.recent, Mine, 5, -1)

\* Both lists were cut: the doctor has more than 10 upcoming appointments
\* and a cancelled one besides.
C17_Witness ==
    /\ last.op = "dashboard"
    /\ Cardinality(Eligible) > 10
    /\ Len(last.view.upcoming) = 10
    /\ Len(last.view.recent) = 5
    /\ \E i \in Mine : appts[i].status = "cancelled"

\* ------------------------------------------------------------ role gating
\* The users that send requests: the users of the doctors and of the
\* patients, an administrator, and a visitor who is not logged in.
Admins == {"a1"}
Anonymous == "anon"
Users == Doctors \cup Patients \cup Admins \cup {Anonymous}

\* CustomUser.user_type
UserType(u) ==
    IF u \in Doctors THEN "doctor"
    ELSE IF u \in Patients THEN "patient"
    ELSE IF u \in Admins THEN "admin"
    ELSE "none"

\* A gate that lets every logged-in user through.
LoggedInOnly(u, role) == IF u = Anonymous THEN "login" ELSE "pass"

\* @login_required, then @doctor_required / @patient_required: a visitor is
\* sent to the login page, a user of another type is sent home with
\* "Access denied", anyone else reaches the view.
Gate(u, role) ==
    IF u = Anonymous THEN "login"
    ELSE IF UserType(u) # role THEN "denied"
    ELSE "pass"

\* The redirect of a request that did not reach its view.
Refused(op, res) ==
    /\ last' = Outcome(op, res, 0, "", -1, FALSE)
    /\ UNCHANGED <<appts, payments, now, reqs>>

\* AuthenticationMiddleware: the request arrives and request.user is set
\* before its view is called.  requester is the user of the request being
\* handled or, once its view has run, of the last request.
Arrive(u) ==
    /\ reqs = NoReqs \/ last.op # "none"
    /\ reqs' = <<u>>
    /\ last' = NoLast
    /\ UNCHANGED <<appts, payments, now>>

\* The view of the request that arrived has not run yet.
Arrived(u) == reqs = <<u>> /\ last.op = "none"

\* The views as the URL dispatcher calls them, decorators included.
CreateRequest(u, m, f) ==
    /\ Arrived(u)
    /\ IF Gate(u, "doctor") = "pass" THEN DoctorCreate(u, m, f)
                                     ELSE Refused("create", Gate(u, "doctor"))

CompleteRequest(u, id, m, text) ==
    /\ Arrived(u)
    /\ IF Gate(u, "doctor") = "pass" THEN DoctorComplete(u, id, m, text)
                                     ELSE Refused("complete", Gate(u, "doctor"))

CancelRequest(u, id, m, text) ==
    /\ Arrived(u)
    /\ IF Gate(u, "doctor") = "pass" THEN DoctorCancel(u, id, m, text)
                                     ELSE Refused("cancel", Gate(u, "doctor"))

ScheduleRequest(u, param) ==
    /\ Arrived(u)
    /\ IF Gate(u, "doctor") = "pass" THEN DoctorSchedule(u, param)
                                     ELSE Refused("schedule", Gate(u, "doctor"))

DashboardRequest(u) ==
    /\ Arrived(u)
    /\ IF Gate(u, "doctor") = "pass" THEN DoctorDashboard(u)
                                     ELSE Refused("dashboard", Gate(u, "doctor"))

BookRequest(u, m, f) ==
    /\ Arrived(u)
    /\ IF Gate(u, "patient") = "pass" THEN PatientBook(u, m, f)
                                      ELSE Refused("book", Gate(u, "patient"))

PatientCancelRequest(u, id, m) ==
    /\ Arrived(u)
    /\ IF Gate(u, "patient") = "pass" THEN PatientCancel(u, id, m)
                                      ELSE Refused("pcancel", Gate(u, "patient"))

AccessNext ==
    \/ \E u \in Users : Arrive(u)
    \/ \E u \in Users, m \in Methods, f \in PlainCreateInputs : CreateRequest(u, m, f)
    \/ \E u \in Users, id \in ApptIds, m \in Methods : CompleteRequest(u, id, m, <<>>)
    \/ \E u \in Users, id \in ApptIds, m \in Methods : CancelRequest(u, id, m, <<>>)
    \/ \E u \in Users, param \in DateParams : ScheduleRequest(u, param)
    \/ \E u \in Users : DashboardRequest(u)
    \/ \E u \in Users, m \in Methods, f \in BookInputs : BookRequest(u, m, f)
    \/ \E u \in Users, id \in ApptIds, m \in Methods : PatientCancelRequest(u, id, m)

\* AccessSpec: requests by any user to the gated views, one at a time.
AccessSpec == Init /\ [][AccessNext]_vars

DoctorViews == {"create", "complete", "cancel", "schedule", "dashboard"}
PatientViews == {"book", "pcancel"}

\* The user of the last request, once its view has run.
Requester == reqs[1]

\* C18: a request to a doctor view by a logged-in user whose type is not
\* doctor, and a request to a patient view by a logged-in user whose type is
\* not patient, ends with the access-denied redirect and leaves every
\* appointment as it was.
C18_WrongRoleDenied ==
    (reqs # NoReqs /\ last.op # "none" /\ Requester # Anonymous) =>
        /\ (last.op \in DoctorViews /\ UserType(Requester) # "doctor")
              => (last.res = "denied" /\ appts = last.pre)
        /\ (last.op \in PatientViews /\ UserType(Requester) # "patient")
              => (last.res = "denied" /\ appts = last.pre)

\* A request was denied while a scheduled appointment existed.
C18_Witness ==
    /\ last.res = "denied"
    /\ last.op = "pcancel"
    /\ UserType(Requester) = "doctor"
    /\ \E i \in DOMAIN appts : appts[i].status = "scheduled"
    /\ appts = last.pre

\* ------------------------------------------------- gateway failures, status
\* The payments marked completed by the last request.
NewlyCompleted ==
    {k \in DOMAIN payments :
        /\ payments[k].status = "completed"
        /\ ~(k \in DOMAIN last.prepay /\ last.prepay[k].status = "completed")}

\* The last request was a payment callback whose signature verified and
\* whose capture call failed.
CaptureFailed ==
    last.op = "pay_success" /\ last.res = "ok" /\ ~last.note

\* C19: a request in which a gateway call failed (the order creation of
\* initiate_payment, the signature verification or the capture of
\* payment_success) writes no payment row, marks no payment completed and
\* leaves every appointment as it was.
C19_GatewayFailureLeavesPending ==
    /\ (last.op = "pay_init" /\ last.res = "gateway_error")
          => (payments = last.prepay /\ appts = last.pre)
    /\ (last.op = "pay_success" /\ last.res = "failed")
          => (payments = last.prepay /\ appts = last.pre)
    /\ CaptureFailed => (NewlyCompleted = {} /\ appts = last.pre)

\* C20: no step takes an appointment whose status is not scheduled to the
\* status scheduled, however the requests interleave.
C20_NeverScheduledAgain ==
    [][\A i \in DOMAIN appts :
          appts[i].status # "scheduled" => appts'[i].status # "scheduled"]_vars

\* A request holds the copy it read while the appointment was scheduled, the
\* appointment's status has changed since, and the request is about to save.
C20_Witness ==
    \E r \in Reqs :
        /\ reqs[r].pc \in {"save", "confirm"}
        /\ reqs[r].row.status = "scheduled"
        /\ appts[reqs[r].id].status # "scheduled"

\* ------------------------------------------------- every operation, in turn
\* LedgerSpec: requests handled one at a time, up to MaxAppts appointments
\* of one patient: the creates with usable fields, the status changes, the
\* payment requests and the two reads.
LedgerParams == {p \in DateParams : p.k # "ok" \/ p.v = 6}

LedgerNext ==
    \/ \E doc \in Doctors, f \in ValidCreateInputs : DoctorCreate(doc, "POST", f)
    \/ \E p \in RacePatients, f \in ValidBookInputs : PatientBook(p, "POST", f)
    \/ \E doc \in Doctors, id \in ApptIds, m \in Methods, text \in NoText :
           DoctorComplete(doc, id, m, text)
    \/ \E doc \in Doctors, id \in ApptIds, m \in Methods, text \in NoText :
           DoctorCancel(doc, id, m, text)
    \/ \E p \in RacePatients, id \in ApptIds, m \in Methods : PatientCancel(p, id, m)
    \/ \E p \in RacePatients, id \in ApptIds \cup {0}, gateway \in BOOLEAN :
           InitiatePayment(p, id, gateway)
    \/ \E m \in Methods, order \in PayIds, verify \in VerifyOutcomes,
          capture \in BOOLEAN :
           PaymentSuccess(m, order, verify, capture)
    \/ \E doc \in Doctors, param \in LedgerParams : DoctorSchedule(doc, param)
    \/ \E doc \in Doctors : DoctorDashboard(doc)

LedgerSpec == Init /\ [][LedgerNext]_vars

\* C21: no step of any operation removes an appointment: every appointment
\* id of the table before the step is an id of the table after it.
C21_NeverRemoved ==
    [][DOMAIN appts \subseteq DOMAIN appts']_vars

\* A second appointment exists and the last request cancelled one.
C21_Witness ==
    /\ last.op \in {"cancel", "pcancel"}
    /\ last.res = "ok"
    /\ Len(appts) = MaxAppts
    /\ Len(last.pre) = MaxAppts

\* ------------------------------------------------------ the schedule's cells
\* C22: the grid has the seven day rows 0..6 and the nine hour columns
\* 9..17; every appointment in cell (i, h) is the requesting doctor's, is
\* dated start_date + i and starts in hour h; two appointments of the doctor
\* on the same day and in the same hour are in the same cells.
C22_GridCells ==
    last.op = "schedule" =>
        LET grid == last.view.grid
        IN  /\ DOMAIN grid = 0..6
            /\ \A i \in DOMAIN grid : DOMAIN grid[i] = 9..17
            /\ \A i \in DOMAIN grid : \A h \in DOMAIN grid[i] :
                   \A j \in grid[i][h] :
                       /\ j \in DOMAIN appts
                       /\ appts[j].doctor = last.doctor
                       /\ LocalDate(appts[j].date) = last.view.start + i
                       /\ HourOf(appts[j].date) = h
            /\ \A j, k \in DOMAIN appts :
                   (/\ appts[j].doctor = last.doctor
                    /\ appts[k].doctor = last.doctor
                    /\ LocalDate(appts[j].date) = LocalDate(appts[k].date)
                    /\ HourOf(appts[j].date) = HourOf(appts[k].date))
                       => CellsOf(j) = CellsOf(k)

\* A cell of the rendered grid holds two appointments that start at
\* different minutes of its hour.
C22_Witness ==
    /\ last.op = "schedule"
    /\ \E i \in 0..6, h \in GridHours :
           \E j, k \in last.view.grid[i][h] : appts[j].date # appts[k].date
    /\ appts = last.pre

\* ------------------------------------------------------- week navigation
\* Dates travel in the query string as year-month-day.  Day 0 of the model
\* is Monday 2024-01-01.
EpochYear == 2024

IsLeap(y) == (y % 4 = 0 /\ y % 100 # 0) \/ y % 400 = 0

MonthLen(y, m) ==
    IF m = 2 THEN (IF IsLeap(y) THEN 29 ELSE 28)
    ELSE IF m \in {4, 6, 9, 11} THEN 30 ELSE 31

\* The calendar date of the day that is rest days after the first of month
\* m of year y.
RECURSIVE Ymd(_, _, _)
Ymd(y, m, rest) ==
    IF rest < 0
        THEN IF m = 1 THEN Ymd(y - 1, 12, rest + MonthLen(y - 1, 12))
                      ELSE Ymd(y, m - 1, rest + MonthLen(y, m - 1))
    ELSE IF rest >= MonthLen(y, m)
        THEN IF m = 12 THEN Ymd(y + 1, 1, rest - MonthLen(y, m))
                       ELSE Ymd(y, m + 1, rest - MonthLen(y, m))
    ELSE <<y, m, rest + 1>>

\* A date written as %Y-%m-%d.
DateString(d) == Ymd(EpochYear, 1, d)

\* The days from the epoch to the first of month m of year y.
RECURSIVE DaysTo(_, _)
DaysTo(y, m) ==
    IF y = EpochYear /\ m = 1 THEN 0
    ELSE IF y < EpochYear
        THEN IF m = 12 THEN DaysTo(y + 1, 1) - MonthLen(y, 12)
                       ELSE DaysTo(y, m + 1) - MonthLen(y, m)
    ELSE IF m = 1 THEN DaysTo(y - 1, 12) + MonthLen(y - 1, 12)
                  ELSE DaysTo(y, m - 1) + MonthLen(y, m - 1)

\* datetime.strptime(date_str, '%Y-%m-%d').date(): a ValueError for a month
\* or a day that does not exist.
ParseDate(str) ==
    IF str[2] \in 1..12 /\ str[3] \in 1..MonthLen(str[1], str[2])
        THEN [k |-> "ok", v |-> DaysTo(str[1], str[2]) + str[3] - 1]
        ELSE [k |-> Malformed, v |-> 0]

\* The trail of week links followed: which link, and the week shown before
\* and after.
MaxTrail == 2

Week(view) == <<view.start, view.end>>

\* A request for the schedule with date = the previous or next week shown by
\* the schedule rendered last.
FollowLink(link) ==
    /\ last.op = "schedule"
    /\ Len(reqs) < MaxTrail
    /\ LET target == IF link = "next" THEN last.view.next_week
                                      ELSE last.view.prev_week
           view == ScheduleView(appts, last.doctor,
                                ParseDate(DateString(target)), now)
       IN  /\ last' = Rendered("schedule", last.doctor, view)
           /\ reqs' = Append(reqs, [link |-> link, from |-> Week(last.view),
                                    to |-> Week(view)])
    /\ UNCHANGED <<appts, payments, now>>

NavNext ==
    \/ \E doc \in Doctors, param \in DateParams : DoctorSchedule(doc, param)
    \/ \E link \in {"prev", "next"} : FollowLink(link)

\* One appointment slot in the week of days 7..13.
NavInstants == {At(7, 9, 0)}

NavInit ==
    /\ appts \in TablesAt(NavInstants)
    /\ payments = <<>>
    /\ now \in ScheduleClocks
    /\ last = NoLast
    /\ reqs = NoReqs

\* NavSpec: the weekly schedule asked for any clock and parameter, and its
\* week links followed.
NavSpec == NavInit /\ [][NavNext]_vars

\* C23: prev_week and next_week are the Mondays seven days before and after
\* start_date, and following one link and then the opposite link of the
\* view it leads to shows the week that was shown at first.
C23_WeekLinksRoundTrip ==
    /\ last.op = "schedule" =>
           /\ last.view.prev_week = last.view.start - 7
           /\ last.view.next_week = last.view.start + 7
           /\ Weekday(last.view.prev_week) = 0
           /\ Weekday(last.view.next_week) = 0
    /\ \A n \in DOMAIN reqs :
           (/\ n > 1
            /\ reqs[n].link # reqs[n - 1].link
            /\ reqs[n].from = reqs[n - 1].to)
               => reqs[n].to = reqs[n - 1].from

\* A week link was followed across a month's end and then the opposite link
\* of the view it led to.
C23_Witness ==
    /\ Len(reqs) = 2
    /\ reqs[1].link # reqs[2].link
    /\ reqs[2].from = reqs[1].to
    /\ DateString(reqs[1].from[1])[2] # DateString(reqs[1].to[1])[2]

\* -------------------------------------------------- racing status changes
\* Worker r ends, in this step, a complete or cancel request that read the
\* appointment while it was scheduled: the doctor's views pass their status
\* test on that copy, the patient's view has none, so the request saves and
\* reports success.
EndsWithSuccess(r) ==
    /\ reqs[r].pc = "save"
    /\ reqs'[r].pc = "idle"
    /\ reqs[r].row.status = "scheduled"

\* C24: of the complete and cancel requests racing for one scheduled
\* appointment at most one ends with success: a request that ends with
\* success finds the appointment still scheduled when it saves.
C24_OneTransitionPerAppointment ==
    [][\A r \in Reqs :
          EndsWithSuccess(r) => appts[reqs[r].id].status = "scheduled"]_vars

\* ------------------------------------------------ racing notes
\* NoteRaceSpec: one scheduled appointment, created with or without notes,
\* and the complete and cancel requests for it, with and without a note
\* text, handled concurrently.
NoteRaceInit ==
    /\ appts \in {<<NewRow("p1", "d1", 1, "r", n)>> : n \in NoteInputs}
    /\ payments = <<>>
    /\ now = 0
    /\ last = NoLast
    /\ reqs = [r \in Reqs |-> Idle]

NoteRaceNext ==
    \/ \E r \in Reqs, op \in {"complete", "cancel"}, doc \in Doctors,
          text \in NoteInputs :
           BeginTransition(r, op, doc, 1, text)
    \/ \E r \in Reqs : FinishTransition(r)
    \/ \E r \in Reqs, p \in Patients : BeginPatientCancel(r, p, 1)
    \/ \E r \in Reqs : FinishPatientCancel(r)

NoteRaceSpec == NoteRaceInit /\ [][NoteRaceNext]_vars

\* C25: however complete and cancel requests interleave, the notes an
\* appointment has before a step are a prefix of the notes it has after it.
C25_NotesNeverLost ==
    [][\A i \in DOMAIN appts : IsPrefix(appts[i].notes, appts'[i].notes)]_vars

\* ------------------------------------------------------------- ownership
StatusViews == {"complete", "cancel", "pcancel"}

\* The appointments the last request changed.
Changed == {i \in DOMAIN appts : i \notin DOMAIN last.pre \/ appts[i] # last.pre[i]}

\* C26: a doctor's complete or cancel request and a patient's cancel request
\* change at most the appointment they name, and only if its doctor
\* (patient) is the requesting user; naming an unknown id or someone else's
\* appointment changes nothing.
C26_OnlyOwnAppointment ==
    (reqs # NoReqs /\ last.op \in StatusViews) =>
        /\ Len(appts) = Len(last.pre)
        /\ \A i \in Changed :
               /\ i = last.id
               /\ last.op \in {"complete", "cancel"} => last.pre[i].doctor = Requester
               /\ last.op = "pcancel" => last.pre[i].patient = Requester

\* A patient asked to cancel another patient's scheduled appointment, and a
\* doctor asked to cancel another doctor's: nothing changed.
C26_Witness ==
    /\ reqs # NoReqs
    /\ last.op \in {"cancel", "pcancel"}
    /\ last.res \in {"not_found", "error"}
    /\ last.id \in DOMAIN last.pre
    /\ last.pre[last.id].status = "scheduled"
    /\ Requester \in Doctors \cup Patients
    /\ Requester \notin {last.pre[last.id].doctor, last.pre[last.id].patient}
    /\ UserType(Requester) = IF last.op = "cancel" THEN "doctor" ELSE "patient"
    /\ appts = last.pre

\* ------------------------------------------------- who an appointment is for
\* POST data with a field the forms do not have: a doctor id sent to the
\* doctor's create view, a patient id sent to the patient's booking view.
\* Neither view reads it.
FutureDates == {w \in DateInputs : w.k = "ok" /\ w.v > 0}

CraftedCreateInputs ==
    [patient : Patients, when : FutureDates, reason : {"r"}, notes : {<<>>},
     doctor : Doctors]

CraftedBookInputs ==
    [doctor : Doctors, when : FutureDates, reason : {"r"}, patient : Patients]

\* The request arrives; other is the user its extra field names.
ArriveOnBehalf(u, other) ==
    /\ reqs = NoReqs \/ last.op # "none"
    /\ reqs' = <<u, other>>
    /\ last' = NoLast
    /\ UNCHANGED <<appts, payments, now>>

CraftedCreateRequest(u, m, f) ==
    /\ reqs = <<u, f.doctor>> /\ last.op = "none"
    /\ IF Gate(u, "doctor") = "pass" THEN DoctorCreate(u, m, f)
                                     ELSE Refused("create", Gate(u, "doctor"))

CraftedBookRequest(u, m, f) ==
    /\ reqs = <<u, f.patient>> /\ last.op = "none"
    /\ IF Gate(u, "patient") = "pass" THEN PatientBook(u, m, f)
                                      ELSE Refused("book", Gate(u, "patient"))

CreatorNext ==
    \/ \E u \in Users, other \in Doctors \cup Patients : ArriveOnBehalf(u, other)
    \/ \E u \in Users, m \in Methods, f \in CraftedCreateInputs :
           CraftedCreateRequest(u, m, f)
    \/ \E u \in Users, m \in Methods, f \in CraftedBookInputs :
           CraftedBookRequest(u, m, f)

\* CreatorSpec: create and booking requests by any user, each naming some
\* other user in an extra field.
CreatorSpec == Init /\ [][CreatorNext]_vars

\* The user the extra field of the last request named.
OnBehalfOf == reqs[2]

\* C27: the appointments a doctor's create request adds have the requesting
\* doctor as doctor, and those a patient's booking request adds have the
\* requesting patient as patient, whatever the request's fields say.
C27_CreatorOwnsAppointment ==
    (reqs # NoReqs /\ last.op \in Creates) =>
        \A i \in Changed :
            /\ i \notin DOMAIN last.pre
            /\ last.op = "create" => appts[i].doctor = Requester
            /\ last.op = "book" => appts[i].patient = Requester

\* A create (booking) naming another doctor (patient) in its extra field
\* added an appointment.
C27_Witness ==
    /\ reqs # NoReqs
    /\ last.op \in Creates /\ last.res = "ok"
    /\ Changed = {last.id}
    /\ UserType(OnBehalfOf) = UserType(Requester)
    /\ OnBehalfOf # Requester

\* ------------------------------------------------------------ GET requests
\* A step of a complete or cancel view called with the GET method.
StatusViewByGet ==
    \/ \E doc \in Doctors, id \in ApptIds, text \in NoteInputs :
           DoctorComplete(doc, id, "GET", text)
    \/ \E doc \in Doctors, id \in ApptIds, text \in NoteInputs :
           DoctorCancel(doc, id, "GET", text)
    \/ \E p \in Patients, id \in ApptIds : PatientCancel(p, id, "GET")

\* C28: a GET request to the doctor's complete view, the doctor's cancel
\* view or the patient's cancel view leaves every appointment's status and
\* notes as they were.
C28_GetChangesNothing ==
    [][StatusViewByGet => appts' = appts]_vars

\* -------------------------------------------------- the payment callback
\* C29: a step of the payment callback changes an appointment only if the
\* signature verification succeeded and the appointment is the one linked
\* to the payment of the verified order; a callback whose verification
\* returns false or raises changes neither table.
C29_ConfirmedOnlyWhenVerified ==
    [][\A m \in Methods, order \in PayIds, verify \in VerifyOutcomes,
          capture \in BOOLEAN :
          PaymentSuccess(m, order, verify, capture) =>
              /\ verify # "true" => (appts' = appts /\ payments' = payments)
              /\ \A i \in DOMAIN appts :
                     appts'[i] # appts[i] =>
                         /\ verify = "true"
                         /\ order \in DOMAIN payments
                         /\ payments[order].appt = i]_vars

\* A callback for the pending payment of a scheduled appointment failed its
\* verification; the payment is still pending, the appointment scheduled.
C29_Witness ==
    /\ last.op = "pay_success"
    /\ last.res = "failed"
    /\ \E k \in DOMAIN payments :
           /\ payments[k].status = "pending"
           /\ payments[k].appt \in DOMAIN appts
           /\ appts[payments[k].appt].status = "scheduled"
    /\ payments = last.prepay
    /\ appts = last.pre

\* ----------------------------------------------------------- availability
\* Doctor.is_available, which a doctor sets in the profile form: d1 has it
\* set, d2 has cleared it.
Available == {"d1"}

\* Doctor.objects.filter(is_available=True): the doctors the booking form
\* lists.  The POST branch of book_appointment does not use the list.
OfferedDoctors == {d \in Doctors : d \in Available}

\* C30: every appointment a booking request adds is with a doctor whose
\* availability flag is set; a booking naming an unavailable doctor adds
\* nothing.
C30_BookedDoctorAvailable ==
    last.op = "book" => \A i \in Changed : appts[i].doctor \in OfferedDoctors

====
